---- MODULE Spec2Model ----
(***************************************************************************)
(* Model of linak-desk-control.py: the status report decoder, the device   *)
(* session handshake (LinakController.__init__ / _init_device), the move   *)
(* loop (LinakController.move), get_height and the __main__ block with its *)
(* try / except / finally around the controller.                           *)
(*                                                                         *)
(* Buffers are sequences of bytes (0..255).  Python indexes from 0, TLA+   *)
(* from 1: At(buf, i) is Python's buf[i].                                  *)
(***************************************************************************)
EXTENDS Integers, Sequences, FiniteSets, TLC

(* ---------------- program constants (lines 23-54) ---------------- *)
REQ_INIT == 771
REQ_GET_STATUS == 772
REQ_MOVE == 773
TYPE_SET_CI == 33
TYPE_GET_CI == 161
HID_REPORT_GET == 1
HID_REPORT_SET == 9
CMD_STATUS_REPORT == 4
LEN_STATUS_REPORT == 64
NRB_STATUS_REPORT == 56
CMD_MODE_OF_OPERATION == 3
CMD_CONTROL_CBC == 5
DEF_MODE_OF_OPERATION == 4
HEIGHT_MOVE_DOWNWARDS == 32767
HEIGHT_MOVE_UPWARDS == 32768
HEIGHT_MOVE_END == 32769
max_retry == 3
epsilon == 13

(* ---------------- bounds of the model ---------------- *)
\* polls of one move() call explored
MaxPolls == 4
\* single-byte changes applied to one buffer in SigSpec
MaxPokes == 1

(* ---------------- Python helpers ---------------- *)
Min(a, b) == IF a <= b THEN a ELSE b
Abs(x) == IF x < 0 THEN 0 - x ELSE x

\* Python buf[i]
At(buf, i) == buf[i + 1]

\* Python s[a:b] (indices clipped to the length)
PySlice(s, a, b) == SubSeq(s, a + 1, Min(b, Len(s)))

\* Python s[a:]
PyTail(s, a) == SubSeq(s, a + 1, Len(s))

\* bytearray(b'\x00' * LEN_STATUS_REPORT)
ZeroBuf == [i \in 1..LEN_STATUS_REPORT |-> 0]

\* buf[i] = v
SetAt(buf, i, v) == [buf EXCEPT ![i + 1] = v]

\* bytes.hex(): two hex digits per byte, high digit first
Hex(buf) ==
  [k \in 1..(2 * Len(buf)) |->
     IF k % 2 = 1 THEN buf[(k + 1) \div 2] \div 16 ELSE buf[k \div 2] % 16]

\* int(s, 16) on a string of hex digits; -1 stands for the ValueError that
\* int('', 16) raises
RECURSIVE HexVal(_)
HexVal(s) ==
  IF Len(s) = 0 THEN 0
  ELSE 16 * HexVal(SubSeq(s, 1, Len(s) - 1)) + s[Len(s)]

HexInt(s) == IF Len(s) = 0 THEN -1 ELSE HexVal(s)

\* bin(w)[2:]: binary digits of w, most significant first, '0' for 0
RECURSIVE BinDigits(_)
BinDigits(w) ==
  IF w < 2 THEN <<w>> ELSE BinDigits(w \div 2) \o <<w % 2>>

\* bin(w).lstrip('0b'): as BinDigits, the empty string for 0
BinStripped(w) == IF w = 0 THEN <<>> ELSE BinDigits(w)

\* str.zfill(n) / '{:0>ns}'.format: pad with zeros on the left to n digits
ZFill(s, n) ==
  IF Len(s) >= n THEN s ELSE [i \in 1..(n - Len(s)) |-> 0] \o s

(* ---------------- report decoder (lines 106-231) ---------------- *)

\* Status.from_buf (lines 113-123): buf is a slice of hex digits
Status_from_buf(buf) ==
  IF HexInt(buf) = -1 THEN [err |-> "ValueError"]
  ELSE LET bitlist == ZFill(BinStripped(HexInt(buf)), 8)
       IN [err |-> "none",
           positionLost |-> bitlist[1] = 1,
           antiColision |-> bitlist[2] = 1,
           overloadDown |-> bitlist[3] = 1,
           overloadUp |-> bitlist[4] = 1,
           unknown |-> HexInt(PyTail(buf, 1))]

\* StatusPositionSpeed.from_buf (lines 131-138)
StatusPositionSpeed_from_buf(buf) ==
  LET pos == HexInt(PySlice(buf, 2, 4) \o PySlice(buf, 0, 2))
      status == Status_from_buf(PySlice(buf, 4, 6))
      speed == HexInt(PySlice(buf, 6, 8))
  IN IF pos = -1 \/ status.err # "none" \/ speed = -1
       THEN [err |-> "ValueError"]
       ELSE [err |-> "none", pos |-> pos, status |-> status, speed |-> speed]

\* line 178 with the bits taken least significant first
ValidFlags_from_buf_lsb_first(buf) ==
  IF HexInt(buf) = -1 THEN [err |-> "ValueError"]
  ELSE LET bits == ZFill(BinDigits(HexInt(buf)), 16)
       IN [err |-> "none",
           flags |-> [idx \in 1..Len(bits) |-> bits[Len(bits) + 1 - idx] = 1]]

\* ValidFlags.from_buf (lines 159-181): flags[idx + 1] is the flag attr[idx]
ValidFlags_from_buf(buf) ==
  IF HexInt(buf) = -1 THEN [err |-> "ValueError"]
  ELSE LET bits == ZFill(BinDigits(HexInt(buf)), 16)
       IN [err |-> "none", flags |-> [idx \in 1..Len(bits) |-> bits[idx] = 1]]

\* StatusReport.from_buf (lines 206-231).  An IndexError (buf[1] on a buffer
\* of one byte) or a ValueError (int('', 16) on a slice past the end of a
\* short buffer) leaves from_buf without a report.
StatusReport_from_buf(buf) ==
  LET raw == Hex(buf)
      validFlag == ValidFlags_from_buf(PySlice(raw, 4, 8))
      ref1 == StatusPositionSpeed_from_buf(PySlice(raw, 8, 16))
      ref2 == StatusPositionSpeed_from_buf(PySlice(raw, 16, 24))
      ref3 == StatusPositionSpeed_from_buf(PySlice(raw, 24, 32))
      ref4 == StatusPositionSpeed_from_buf(PySlice(raw, 32, 40))
      ref1cnt == HexInt(PySlice(raw, 42, 44) \o PySlice(raw, 40, 42))
      ref2cnt == HexInt(PySlice(raw, 46, 48) \o PySlice(raw, 44, 46))
      ref3cnt == HexInt(PySlice(raw, 50, 52) \o PySlice(raw, 48, 50))
      ref4cnt == HexInt(PySlice(raw, 54, 56) \o PySlice(raw, 52, 54))
      ref5 == StatusPositionSpeed_from_buf(PySlice(raw, 56, 64))
      diagnostic == PySlice(raw, 64, 80)
      undefined1 == PySlice(raw, 80, 84)
      handset1 == HexInt(PySlice(raw, 86, 88) \o PySlice(raw, 84, 86))
      handset2 == HexInt(PySlice(raw, 88, 90) \o PySlice(raw, 86, 88))
      ref6 == StatusPositionSpeed_from_buf(PySlice(raw, 90, 98))
      ref7 == StatusPositionSpeed_from_buf(PySlice(raw, 98, 106))
      ref8 == StatusPositionSpeed_from_buf(PySlice(raw, 106, 114))
      undefined2 == PyTail(raw, 114)
  IN IF Len(buf) < 2 THEN [err |-> "IndexError"]
     ELSE IF \/ validFlag.err # "none"
             \/ \E x \in {ref1, ref2, ref3, ref4, ref5, ref6, ref7, ref8} :
                  x.err # "none"
             \/ -1 \in {ref1cnt, ref2cnt, ref3cnt, ref4cnt, handset1, handset2}
       THEN [err |-> "ValueError"]
       ELSE [err |-> "none",
             featureRaportID |-> At(buf, 0),
             numberOfBytes |-> At(buf, 1),
             validFlag |-> validFlag,
             ref1 |-> ref1, ref2 |-> ref2, ref3 |-> ref3, ref4 |-> ref4,
             ref1cnt |-> ref1cnt, ref2cnt |-> ref2cnt,
             ref3cnt |-> ref3cnt, ref4cnt |-> ref4cnt,
             ref5 |-> ref5,
             diagnostic |-> diagnostic,
             undefined1 |-> undefined1,
             handset1 |-> handset1, handset2 |-> handset2,
             ref6 |-> ref6, ref7 |-> ref7, ref8 |-> ref8,
             undefined2 |-> undefined2]

\* the class defaults of StatusReport (lines 185-204): no report decoded yet
NoReport == [err |-> "unset"]

\* no function is being applied on its own
NoProbe == [kind |-> "none"]

(* ---------------- device session (lines 257-343) ---------------- *)

\* _control_write_read (lines 257-264): data_buffer is the 64-byte buffer
\* after the transfer; the caller gets the count and the slice
\* data_buffer[:transferred]
control_write_read(data_buffer, transferred) ==
  [amount |-> transferred, buf |-> PySlice(data_buffer, 0, transferred)]

\* the request a control transfer puts on the wire
Transfer(request_type, request, value, data) ==
  [type |-> request_type, request |-> request, value |-> value, data |-> data]

\* _get_status_report's request (lines 267-275)
GetStatusRequest ==
  Transfer(TYPE_GET_CI, HID_REPORT_GET, REQ_GET_STATUS,
           SetAt(ZeroBuf, 0, CMD_STATUS_REPORT))

\* line 278 left out
get_status_report_check_nocheck(buf) ==
  IF Len(buf) = 0 THEN "IndexError" ELSE "none"

\* _get_status_report's check of the response (line 278); buf[0] on an
\* empty buffer raises IndexError
get_status_report_check(buf) ==
  IF Len(buf) = 0 THEN "IndexError"
  ELSE IF At(buf, 0) # CMD_STATUS_REPORT THEN "ProtocolMismatch"
  ELSE "none"

\* _set_status_report's request (lines 284-295)
SetModeRequest ==
  Transfer(TYPE_SET_CI, HID_REPORT_SET, REQ_INIT,
           SetAt(SetAt(SetAt(SetAt(ZeroBuf, 0, CMD_MODE_OF_OPERATION),
                             1, DEF_MODE_OF_OPERATION), 2, 0), 3, 251))

\* line 297 accepting any transfer
set_status_report_ok_any(amount) == amount >= 0

\* _set_status_report's check (line 297)
set_status_report_ok(amount) == amount = LEN_STATUS_REPORT

\* '{:04x}'.format(height) for a 16-bit height: four hex digits
Format04x(height) ==
  <<(height \div 4096) % 16, (height \div 256) % 16,
    (height \div 16) % 16, height % 16>>

\* lines 309-316 with the high byte written first in each slot
MoveBuffer_high_first(height) ==
  LET hHex == Format04x(height)
      hHigh == HexInt(PyTail(hHex, 2))
      hLow == HexInt(PySlice(hHex, 0, 2))
  IN [i \in 1..LEN_STATUS_REPORT |->
        IF i = 1 THEN CMD_CONTROL_CBC
        ELSE IF i \in {2, 4, 6, 8} THEN hLow
        ELSE IF i \in {3, 5, 7, 9} THEN hHigh
        ELSE 0]

\* lines 309-316 with the last slot (lines 315-316) left out
MoveBuffer_three_slots(height) ==
  LET hHex == Format04x(height)
      hHigh == HexInt(PyTail(hHex, 2))
      hLow == HexInt(PySlice(hHex, 0, 2))
  IN [i \in 1..LEN_STATUS_REPORT |->
        IF i = 1 THEN CMD_CONTROL_CBC
        ELSE IF i \in {2, 4, 6} THEN hHigh
        ELSE IF i \in {3, 5, 7} THEN hLow
        ELSE 0]

\* _move's buffer (lines 302-316)
MoveBuffer(height) ==
  LET hHex == Format04x(height)
      hHigh == HexInt(PyTail(hHex, 2))
      hLow == HexInt(PySlice(hHex, 0, 2))
  IN [i \in 1..LEN_STATUS_REPORT |->
        IF i = 1 THEN CMD_CONTROL_CBC
        ELSE IF i \in {2, 4, 6, 8} THEN hHigh
        ELSE IF i \in {3, 5, 7, 9} THEN hLow
        ELSE 0]

\* _move's request (lines 318-323)
MoveRequest(height) ==
  Transfer(TYPE_SET_CI, HID_REPORT_SET, REQ_MOVE, MoveBuffer(height))

\* line 324 accepting a partial transfer
move_result_partial(amount) == amount > 0

\* _move's result (line 324)
move_result(amount) == amount = LEN_STATUS_REPORT

\* line 339 with the range one short: byte 58 is not looked at
RECURSIVE not_ready_loop_short(_, _)
not_ready_loop_short(buf, i) ==
  IF i >= LEN_STATUS_REPORT - 6 THEN "True"
  ELSE IF i >= Len(buf) THEN "IndexError"
  ELSE IF At(buf, i) # 0 THEN "False"
  ELSE not_ready_loop_short(buf, i + 1)

\* _is_status_report_not_ready (lines 335-343): the loop from index i on;
\* "IndexError" when the loop reads past the end of a short buffer
RECURSIVE not_ready_loop(_, _)
not_ready_loop(buf, i) ==
  IF i >= LEN_STATUS_REPORT - 5 THEN "True"
  ELSE IF i >= Len(buf) THEN "IndexError"
  ELSE IF At(buf, i) # 0 THEN "False"
  ELSE not_ready_loop(buf, i + 1)

is_status_report_not_ready(buf) ==
  IF At(buf, 0) # CMD_STATUS_REPORT THEN "False"
  ELSE IF Len(buf) < 2 THEN "IndexError"
  ELSE IF At(buf, 1) # NRB_STATUS_REPORT THEN "False"
  ELSE not_ready_loop(buf, 2)

(* ---------------- move loop (lines 360-387) ---------------- *)

\* lines 373-374 without the comparison with the previous poll
settled_distance_only(distance, delta, prev_height, pos) ==
  Abs(distance) <= epsilon

\* the condition of lines 373-374 with strict comparisons
settled_strict(distance, delta, prev_height, pos) ==
  Abs(distance) < epsilon \/ delta < epsilon \/ prev_height = pos

\* the condition of lines 373-374
settled(distance, delta, prev_height, pos) ==
  Abs(distance) <= epsilon \/ delta <= epsilon \/ prev_height = pos

\* lines 373-377 without the reset of line 377
next_retry_count_noreset(retry_count, r, prev_height) ==
  LET distance == r.ref1cnt - r.ref1.pos
      delta == Abs(prev_height - r.ref1.pos)
  IN IF settled(distance, delta, prev_height, r.ref1.pos)
       THEN retry_count - 1
       ELSE retry_count

\* lines 373-377
next_retry_count(retry_count, r, prev_height) ==
  LET distance == r.ref1cnt - r.ref1.pos
      delta == Abs(prev_height - r.ref1.pos)
  IN IF settled(distance, delta, prev_height, r.ref1.pos)
       THEN retry_count - 1
       ELSE max_retry

\* line 387 with a strict comparison
move_return_strict(pos, target) == Abs(pos - target) < epsilon

\* line 387
move_return(pos, target) == Abs(pos - target) <= epsilon

\* close (lines 250-255).  handle is the state of the instance attribute
\* _handle: "unset" (only the class default None), "set" or "deleted"; del
\* of an attribute the instance does not hold raises AttributeError.
close(handle, claimed) ==
  IF handle = "set"
    THEN [handle |-> "deleted", claimed |-> FALSE, err |-> "none"]
    ELSE [handle |-> handle, claimed |-> claimed, err |-> "AttributeError"]

(* ---------------- what the device may answer ---------------- *)

\* move targets given on the command line (args.height)
TargetVals == {0, 100, HEIGHT_MOVE_DOWNWARDS, HEIGHT_MOVE_UPWARDS,
               HEIGHT_MOVE_END, 65535}

\* positions the device reports in ref1
PosVals == {0, 100, 113, 114, 32781, 65535}

\* values the device reports in ref1cnt
CntVals == {0, 100}

\* transferred-byte counts below 64 the transport reports for a read
ShortCounts == {0, 1, 21, 57, 59}

\* transferred-byte counts the transport reports for a write
AmountVals == {0, 8, 64}

\* a report with the given header, ref1 position and ref1cnt, zero elsewhere
MkReport(b0, b1, pos, cnt) ==
  [i \in 1..LEN_STATUS_REPORT |->
     IF i = 1 THEN b0
     ELSE IF i = 2 THEN b1
     ELSE IF i = 5 THEN pos % 256
     ELSE IF i = 6 THEN pos \div 256
     ELSE IF i = 21 THEN cnt % 256
     ELSE IF i = 22 THEN cnt \div 256
     ELSE 0]

\* the blank report "0438" + zeros
BlankReport == MkReport(CMD_STATUS_REPORT, NRB_STATUS_REPORT, 0, 0)

DeviceReports ==
  {MkReport(CMD_STATUS_REPORT, NRB_STATUS_REPORT, p, c) :
     p \in PosVals, c \in CntVals}
  \cup {SetAt(BlankReport, i, 1) : i \in {2, 58, 59, 63}}
  \cup {MkReport(7, NRB_STATUS_REPORT, 100, 100),
        MkReport(CMD_STATUS_REPORT, 0, 0, 0)}

\* the reports the model also lets the transport cut short
ShortReports == {BlankReport}

(* ---------------- state ---------------- *)

VARIABLES
  pc,           \* position of the program
  subcommand,   \* args.subcommand
  target,       \* args.height
  co,           \* "unbound" until LinakController() has returned (line 414)
  handle,       \* the instance attribute _handle, see close
  claimed,      \* the device's interface 0 is claimed by this process
  err,          \* the exception that is propagating, "none" if none
  rx,           \* the buffer the last read left in _get_status_report
                \* (line 270), before the check of line 278
  buf,          \* the raw report _get_status_report last returned
  amount,       \* the count reported for the handshake's last write
  r,            \* the report from_buf last returned
  retry_count,  \* move's retry_count
  prev_height,  \* move's prev_height
  result,       \* move's return value: "unset", "True" or "False"
  height,       \* get_height's return value, <<>> while unset
  transfers,    \* the control transfers issued so far, in order
  polls,        \* status polls of the running move() call
  on_target,    \* every poll of the move() call so far reported target
  sent_full,    \* some _move of the move() call reported 64 bytes
  streak,       \* the polls of the move() call that were settled in a row,
                \* and the position the last poll reported (0 before any)
  probe         \* input and output of a function applied on its own

vars == <<pc, subcommand, target, co, handle, claimed, err, rx, buf, amount,
          r, retry_count, prev_height, result, height, transfers, polls,
          on_target, sent_full, streak, probe>>

args == <<subcommand, target, probe>>
loop == <<retry_count, prev_height, result, polls, on_target, sent_full,
          streak>>

\* the program before LinakController() is called
Fresh ==
  /\ pc = "start"
  /\ co = "unbound"
  /\ handle = "unset"
  /\ claimed = FALSE
  /\ err = "none"
  /\ rx = <<>>
  /\ buf = <<>>
  /\ amount = -1
  /\ r = NoReport
  /\ retry_count = 0
  /\ prev_height = 0
  /\ result = "unset"
  /\ height = <<>>
  /\ transfers = <<>>
  /\ polls = 0
  /\ on_target = TRUE
  /\ streak = [n |-> 0, last |-> 0]
  /\ sent_full = FALSE

Init ==
  /\ Fresh
  /\ subcommand \in {"move", "status"}
  /\ target \in (IF subcommand = "move" THEN TargetVals ELSE {0})
  /\ probe = NoProbe

\* _get_status_report (lines 266-281) for a transport that fills the buffer
\* with data and reports n bytes
get_status_report(data, n) ==
  LET res == control_write_read(data, n)
  IN [err |-> get_status_report_check(res.buf), rx |-> res.buf,
      buf |-> res.buf]

\* what the transport may do on a read: fill the buffer with a report and
\* report all 64 bytes, or report a short count
TransportReads ==
  {<<data, LEN_STATUS_REPORT>> : data \in DeviceReports}
  \cup {<<data, n>> : data \in ShortReports, n \in ShortCounts}

\* all outcomes of _get_status_report, a transport error included
FetchOutcomes ==
  {[err |-> "TransportError", rx |-> <<>>, buf |-> <<>>]}
  \cup {get_status_report(t[1], t[2]) : t \in TransportReads}

\* lines 369-370 and 390-391: each outcome of the fetch with the report
\* StatusReport.from_buf makes of it, where the fetch returned
Decoded(outcomes) ==
  {[err |-> f.err, rx |-> f.rx, buf |-> f.buf,
    rep |-> IF f.err = "none" THEN StatusReport_from_buf(f.buf)
            ELSE NoReport] : f \in outcomes}

\* the outcomes of a poll of move
PollOutcomes == Decoded(FetchOutcomes)

\* the outcomes of get_height's fetch: the same, and a desk standing at 50 cm
HeightOutcomes ==
  Decoded(FetchOutcomes
          \cup {get_status_report(
                  MkReport(CMD_STATUS_REPORT, NRB_STATUS_REPORT, 4900, 100),
                  LEN_STATUS_REPORT)})

(* ---------------- __init__ and the handshake ---------------- *)

\* an exception leaves __init__: the program ends, co was never bound
InitRaise(e) ==
  /\ err' = e
  /\ pc' = "exit"

\* __init__ up to the handshake (lines 238-247)
Connect ==
  /\ pc = "start"
  /\ \/ /\ InitRaise("ConnectFailed")
        /\ UNCHANGED <<handle, claimed>>
     \/ /\ handle' = "set"
        /\ InitRaise("TransportError")
        /\ UNCHANGED claimed
     \/ /\ handle' = "set"
        /\ claimed' = TRUE
        /\ pc' = "init_fetch"
        /\ UNCHANGED err
  /\ UNCHANGED <<args, co, rx, buf, amount, r, height, transfers, loop>>

\* _init_device, lines 346-350
InitFetch ==
  /\ pc = "init_fetch"
  /\ transfers' = Append(transfers, GetStatusRequest)
  /\ \E f \in FetchOutcomes :
       /\ rx' = IF f.err = "TransportError" THEN rx ELSE f.rx
       /\ IF f.err # "none"
            THEN InitRaise(f.err) /\ UNCHANGED <<buf, co>>
            ELSE /\ buf' = f.buf
                 /\ LET nr == is_status_report_not_ready(f.buf)
                    IN IF nr = "IndexError"
                         THEN InitRaise("IndexError") /\ UNCHANGED co
                       ELSE IF nr = "False"
                         THEN /\ pc' = "main"
                              /\ co' = "controller"
                              /\ UNCHANGED err
                       ELSE pc' = "init_setmode" /\ UNCHANGED <<err, co>>
  /\ UNCHANGED <<args, handle, claimed, amount, r, height, loop>>

\* _init_device, line 352: _set_status_report
InitSetMode ==
  /\ pc = "init_setmode"
  /\ transfers' = Append(transfers, SetModeRequest)
  /\ \/ InitRaise("TransportError") /\ UNCHANGED amount
     \/ \E n \in AmountVals :
          /\ amount' = control_write_read(SetModeRequest.data, n).amount
          /\ IF set_status_report_ok(amount')
               THEN pc' = "init_moveend" /\ UNCHANGED err
               ELSE InitRaise("InitFailed")
  /\ UNCHANGED <<args, co, handle, claimed, rx, buf, r, height, loop>>

\* _init_device, lines 354-358: _move_end
InitMoveEnd ==
  /\ pc = "init_moveend"
  /\ transfers' = Append(transfers, MoveRequest(HEIGHT_MOVE_END))
  /\ \/ InitRaise("TransportError") /\ UNCHANGED <<amount, co>>
     \/ \E n \in AmountVals :
          /\ amount' =
               control_write_read(MoveRequest(HEIGHT_MOVE_END).data, n).amount
          /\ IF move_result(amount')
               THEN pc' = "main" /\ co' = "controller" /\ UNCHANGED err
               ELSE InitRaise("InitFailed") /\ UNCHANGED co
  /\ UNCHANGED <<args, handle, claimed, rx, buf, r, height, loop>>

(* ---------------- __main__, move and get_height ---------------- *)

\* an exception inside the try block (lines 415-424)
TryRaise(e) ==
  /\ err' = e
  /\ pc' = "except"

\* lines 416-417 and 361-363: move is entered
StartMove ==
  /\ pc = "main"
  /\ subcommand = "move"
  /\ retry_count' = max_retry
  /\ prev_height' = 0
  /\ pc' = "move_send"
  /\ UNCHANGED <<args, co, handle, claimed, err, rx, buf, amount, r,
                 result, height, transfers, polls, on_target, sent_full,
                 streak>>

\* line 366: self._move(target), its result dropped
SendStep ==
  /\ pc = "move_send"
  /\ \/ TryRaise("TransportError") /\ UNCHANGED sent_full
     \/ \E n \in AmountVals :
          LET sent == move_result(
                        control_write_read(MoveRequest(target).data, n).amount)
          IN /\ sent_full' = (sent_full \/ sent)
             /\ pc' = "move_poll"
             /\ UNCHANGED err
  /\ UNCHANGED <<args, co, handle, claimed, rx, buf, amount, r,
                 retry_count, prev_height, result, height, on_target,
                 streak>>

\* SendStep with the transfer logged, for a move of at most MaxPolls polls
MoveSend ==
  /\ polls < MaxPolls
  /\ SendStep
  /\ transfers' = Append(transfers, MoveRequest(target))
  /\ UNCHANGED polls

\* lines 369-387: one poll of the loop, and the return when it breaks, for
\* a fetch with one of the given outcomes, from_buf(f) being the report
\* StatusReport.from_buf makes of the outcome f
PollStepOn(outcomes, from_buf(_)) ==
  /\ pc = "move_poll"
  /\ \E f \in outcomes :
       LET rep == from_buf(f)
       IN /\ rx' = IF f.err = "TransportError" THEN rx ELSE f.rx
          /\ IF f.err # "none"
               THEN /\ TryRaise(f.err)
                    /\ on_target' = FALSE
                    /\ UNCHANGED streak
                    /\ UNCHANGED <<buf, r, retry_count, prev_height, result>>
             ELSE IF rep.err # "none"
               THEN /\ TryRaise(rep.err)
                    /\ buf' = f.buf
                    /\ on_target' = FALSE
                    /\ UNCHANGED streak
                    /\ UNCHANGED <<r, retry_count, prev_height, result>>
             ELSE /\ buf' = f.buf
                  /\ r' = rep
                  /\ on_target' = (on_target /\ rep.ref1.pos = target)
                  /\ streak' =
                       [n |-> IF \/ Abs(rep.ref1cnt - rep.ref1.pos) <= 13
                                 \/ Abs(streak.last - rep.ref1.pos) <= 13
                                THEN streak.n + 1 ELSE 0,
                        last |-> rep.ref1.pos]
                  /\ retry_count' =
                       next_retry_count(retry_count, rep, prev_height)
                  /\ IF retry_count' = 0
                       THEN /\ result' = IF move_return(rep.ref1.pos, target)
                                           THEN "True" ELSE "False"
                            /\ pc' = "finally"
                            /\ UNCHANGED prev_height
                       ELSE /\ prev_height' = rep.ref1.pos
                            /\ pc' = "move_send"
                            /\ UNCHANGED result
                  /\ UNCHANGED err
  /\ UNCHANGED <<args, co, handle, claimed, amount, height, sent_full>>

PollStep == PollStepOn(PollOutcomes, LAMBDA f : f.rep)

\* a poll that reads the status twice
MovePoll_twice ==
  /\ PollStep
  /\ transfers' = transfers \o <<GetStatusRequest, GetStatusRequest>>
  /\ polls' = polls + 1

\* PollStep with the transfer logged and the poll counted
MovePoll ==
  /\ PollStep
  /\ transfers' = Append(transfers, GetStatusRequest)
  /\ polls' = polls + 1

\* line 393: r.ref1.pos, r.ref1.pos/98.0 with the quotient as whole
\* centimetres and the 98ths that remain
get_height_counter(rep) ==
  <<rep.ref1cnt, rep.ref1cnt \div 98, rep.ref1cnt % 98>>

get_height(rep) ==
  <<rep.ref1.pos, rep.ref1.pos \div 98, rep.ref1.pos % 98>>

\* lines 422-423 and 389-393: get_height
GetHeight ==
  /\ pc = "main"
  /\ subcommand = "status"
  /\ transfers' = Append(transfers, GetStatusRequest)
  /\ \E f \in HeightOutcomes :
       LET rep == f.rep
       IN /\ rx' = IF f.err = "TransportError" THEN rx ELSE f.rx
          /\ IF f.err # "none"
               THEN TryRaise(f.err) /\ UNCHANGED <<buf, r, height>>
             ELSE IF rep.err # "none"
               THEN TryRaise(rep.err) /\ buf' = f.buf /\ UNCHANGED <<r, height>>
             ELSE /\ buf' = f.buf
                  /\ r' = rep
                  /\ height' = get_height(rep)
                  /\ pc' = "finally"
                  /\ UNCHANGED err
  /\ UNCHANGED <<args, co, handle, claimed, amount, loop>>

\* lines 425-427: except Exception as e: co.close(); raise e
ExceptClose ==
  /\ pc = "except"
  /\ LET c == close(handle, claimed)
     IN /\ handle' = c.handle
        /\ claimed' = c.claimed
        /\ err' = IF c.err # "none" THEN c.err ELSE err
  /\ pc' = "finally"
  /\ UNCHANGED <<args, co, rx, buf, amount, r, height, transfers, loop>>

\* lines 428-429: finally: co.close()
FinallyClose ==
  /\ pc = "finally"
  /\ LET c == close(handle, claimed)
     IN /\ handle' = c.handle
        /\ claimed' = c.claimed
        /\ err' = IF c.err # "none" THEN c.err ELSE err
  /\ pc' = "exit"
  /\ UNCHANGED <<args, co, rx, buf, amount, r, height, transfers, loop>>

Next ==
  \/ Connect
  \/ InitFetch
  \/ InitSetMode
  \/ InitMoveEnd
  \/ StartMove
  \/ MoveSend
  \/ MovePoll
  \/ GetHeight
  \/ ExceptClose
  \/ FinallyClose

Spec == Init /\ [][Next]_vars

\* the session state of the data model, read off the program position
SessionState ==
  IF co = "controller" THEN "Ready"
  ELSE IF pc = "exit" THEN "Faulted"
  ELSE "Uninitialized"

TypeOK ==
  /\ pc \in {"start", "init_fetch", "init_setmode", "init_moveend", "main",
             "move_send", "move_poll", "except", "finally", "exit"}
  /\ retry_count \in 0..max_retry
  /\ polls \in 0..MaxPolls
  /\ Len(buf) <= LEN_STATUS_REPORT

(* ---------------- _is_status_report_not_ready on its own ---------------- *)

\* 64-byte buffers the function is first applied to
SigBases ==
  {MkReport(b0, b1, 0, 0) : b0 \in {CMD_STATUS_REPORT, CMD_CONTROL_CBC},
                            b1 \in {NRB_STATUS_REPORT, 55}}
  \cup {SetAt(BlankReport, i, 1) : i \in {2, 30, 58, 59, 63}}
  \cup {SetAt(SetAt(BlankReport, 59, 7), 63, 9)}

\* the byte values written into a buffer
PokeVals == {0, 1, 255}

SigInit ==
  /\ Fresh
  /\ subcommand = "status"
  /\ target = 0
  /\ \E b \in SigBases :
       probe = [kind |-> "sig", buf |-> b, pokes |-> 0,
                out |-> is_status_report_not_ready(b)]

\* one byte of the buffer is changed and the function applied again
SigPoke ==
  /\ probe.kind = "sig"
  /\ probe.pokes < MaxPokes
  /\ \E i \in 0..(LEN_STATUS_REPORT - 1), v \in PokeVals :
       LET b == SetAt(probe.buf, i, v)
       IN probe' = [kind |-> "sig", buf |-> b, pokes |-> probe.pokes + 1,
                    out |-> is_status_report_not_ready(b)]
  /\ UNCHANGED <<pc, subcommand, target, co, handle, claimed, err, rx, buf,
                 amount, r, retry_count, prev_height, result, height,
                 transfers, polls, on_target, sent_full,
                 streak>>

SigNext == SigPoke

SigSpec == SigInit /\ [][SigNext]_vars

(* ---------------- StatusReport.from_buf on its own ---------------- *)

\* a report whose bytes are all different and non-zero: byte i is i + 1,
\* byte 0 the status command id
RampReport ==
  [i \in 1..LEN_STATUS_REPORT |-> IF i = 1 THEN CMD_STATUS_REPORT ELSE i]

\* the 64-byte reports the decoder is first applied to
DecBases == {BlankReport, RampReport}

\* the byte values written into a report; none occurs in DecBases
DecPokeVals == {129, 255}

DecInit ==
  /\ Fresh
  /\ subcommand = "status"
  /\ target = 0
  /\ \E b \in DecBases :
       probe = [kind |-> "dec", buf |-> b, pokes |-> 0,
                out |-> StatusReport_from_buf(b)]

\* one byte of the report is changed and the report decoded again
DecPoke ==
  /\ probe.kind = "dec"
  /\ probe.pokes < MaxPokes
  /\ \E i \in 0..(LEN_STATUS_REPORT - 1), v \in DecPokeVals :
       LET b == SetAt(probe.buf, i, v)
       IN probe' = [kind |-> "dec", buf |-> b, pokes |-> probe.pokes + 1,
                    out |-> StatusReport_from_buf(b)]
  /\ UNCHANGED <<pc, subcommand, target, co, handle, claimed, err, rx, buf,
                 amount, r, retry_count, prev_height, result, height,
                 transfers, polls, on_target, sent_full,
                 streak>>

DecNext == DecPoke

DecSpec == DecInit /\ [][DecNext]_vars

(* ---------------- _move and the 16-bit fields on their own ---------------- *)

\* 2^k
RECURSIVE Pow2(_)
Pow2(k) == IF k = 0 THEN 1 ELSE 2 * Pow2(k - 1)

\* the 16-bit words the functions are applied to: single bits, runs of low
\* bits, repeated digits, every 521st word, the move codes and some words
\* of two unlike bytes
WordVals ==
  {Pow2(k) : k \in 0..15}
  \cup {Pow2(k) - 1 : k \in 0..16}
  \cup {4369 * d : d \in 0..15}
  \cup {521 * k : k \in 0..125}
  \cup {HEIGHT_MOVE_DOWNWARDS, HEIGHT_MOVE_UPWARDS, HEIGHT_MOVE_END,
        4660, 13330, 4900, 65280, 43605}

\* a report as the device sends it when it echoes the two bytes b1, b2 of a
\* move slot in ref1's position and in ref1cnt..ref4cnt, and has the word w
\* in its validFlag bytes
EchoReport(b1, b2, w) ==
  [i \in 1..LEN_STATUS_REPORT |->
     IF i = 1 THEN CMD_STATUS_REPORT
     ELSE IF i = 2 THEN NRB_STATUS_REPORT
     ELSE IF i = 3 THEN w \div 256
     ELSE IF i = 4 THEN w % 256
     ELSE IF i \in {5, 21, 23, 25, 27} THEN b1
     ELSE IF i \in {6, 22, 24, 26, 28} THEN b2
     ELSE 0]

WordInit ==
  /\ Fresh
  /\ subcommand = "move"
  /\ target = 0
  /\ \E w \in WordVals : probe = [kind |-> "word", stage |-> "input", w |-> w]

\* _move(w) (lines 301-324): the write it issues and what it returns
WordSend ==
  /\ probe.kind = "word"
  /\ probe.stage = "input"
  /\ \E n \in AmountVals :
       LET req == MoveRequest(probe.w)
       IN probe' = [kind |-> "word", stage |-> "sent", w |-> probe.w,
                    requests |-> <<req>>,
                    amount |-> n,
                    sent |-> move_result(control_write_read(req.data, n).amount)]
  /\ UNCHANGED <<pc, subcommand, target, co, handle, claimed, err, rx, buf,
                 amount, r, retry_count, prev_height, result, height,
                 transfers, polls, on_target, sent_full,
                 streak>>

\* StatusReport.from_buf on a report that carries the bytes of the write
WordDecode ==
  /\ probe.kind = "word"
  /\ probe.stage = "sent"
  /\ LET data == probe.requests[1].data
     IN probe' = [kind |-> "word", stage |-> "decoded", w |-> probe.w,
                  requests |-> probe.requests,
                  amount |-> probe.amount,
                  sent |-> probe.sent,
                  out |-> StatusReport_from_buf(
                            EchoReport(At(data, 1), At(data, 2), probe.w))]
  /\ UNCHANGED <<pc, subcommand, target, co, handle, claimed, err, rx, buf,
                 amount, r, retry_count, prev_height, result, height,
                 transfers, polls, on_target, sent_full,
                 streak>>

WordNext ==
  \/ WordSend
  \/ WordDecode

WordSpec == WordInit /\ [][WordNext]_vars

(* ---------------- the loop of move on its own ---------------- *)

\* the targets and the answers of the device the loop is run with: full
\* reports of three positions, and a transport error
LoopTargets == {0, 100}

LoopOutcomes ==
  {[err |-> "TransportError", rx |-> <<>>, buf |-> <<>>]}
  \cup {get_status_report(
          MkReport(CMD_STATUS_REPORT, NRB_STATUS_REPORT, p, c),
          LEN_STATUS_REPORT) : p \in {0, 100, 114}, c \in CntVals}

\* A Ready session about to call move, after a handshake of one read.  The
\* loop runs without the log of transfers and the count of polls, which are
\* no state of the program, and without a bound on its iterations.
LoopInit ==
  /\ pc = "main"
  /\ subcommand = "move"
  /\ target \in LoopTargets
  /\ co = "controller"
  /\ handle = "set"
  /\ claimed = TRUE
  /\ err = "none"
  /\ rx = MkReport(CMD_STATUS_REPORT, NRB_STATUS_REPORT, 100, 0)
  /\ buf = rx
  /\ amount = -1
  /\ r = NoReport
  /\ retry_count = 0
  /\ prev_height = 0
  /\ result = "unset"
  /\ height = <<>>
  /\ transfers = <<GetStatusRequest>>
  /\ polls = 0
  /\ on_target = TRUE
  /\ streak = [n |-> 0, last |-> 0]
  /\ sent_full = FALSE
  /\ probe = NoProbe

LoopSend == SendStep /\ UNCHANGED <<transfers, polls>>

LoopPoll ==
  /\ PollStepOn(LoopOutcomes, LAMBDA f : StatusReport_from_buf(f.buf))
  /\ UNCHANGED <<transfers, polls>>

LoopNext ==
  \/ StartMove
  \/ LoopSend
  \/ LoopPoll
  \/ ExceptClose
  \/ FinallyClose

\* the program is one sequential thread: while it runs, its next statement
\* is executed, and every transfer returns
LoopSpec == LoopInit /\ [][LoopNext]_vars /\ WF_vars(LoopNext)

(* ---------------- properties ---------------- *)

InLoop == pc \in {"move_send", "move_poll"}
Returned == result # "unset"

\* the requests as the interface table gives them
ZerosN(n) == [i \in 1..n |-> 0]
WireGetStatus ==
  [type |-> 161, request |-> 1, value |-> 772, data |-> <<4>> \o ZerosN(63)]
WireSetMode ==
  [type |-> 33, request |-> 9, value |-> 771,
   data |-> <<3, 4, 0, 251>> \o ZerosN(60)]
WireMoveEnd ==
  [type |-> 33, request |-> 9, value |-> 773,
   data |-> <<5, 1, 128, 1, 128, 1, 128, 1, 128>> \o ZerosN(55)]

\* the not-ready signature: byte 0 is 4, byte 1 is 56, bytes 2..58 are zero
NotReadySignature(b) ==
  /\ Len(b) >= 59
  /\ At(b, 0) = 4
  /\ At(b, 1) = 56
  /\ \A i \in 2..58 : At(b, i) = 0

\* C1 as stated: while every poll of a move reports ref1.position = target,
\* the loop is over after at most max_retry (3) polls and move returns true.
C1_WithinMaxRetry ==
  on_target =>
    /\ InLoop => polls < max_retry
    /\ Returned => (polls <= max_retry /\ result = "True")

\* C1 amended: while every poll of a move reports ref1.position = target,
\* the loop is over after at most max_retry + 1 (4) polls and move returns
\* true; the first poll is compared with prev_height = 0 and may reset
\* retry_count.
C1_WithinMaxRetryPlusOne ==
  on_target =>
    /\ InLoop => polls < max_retry + 1
    /\ Returned => (polls <= max_retry + 1 /\ result = "True")

C1_Witness ==
  /\ Returned
  /\ on_target
  /\ polls = max_retry + 1
  /\ result = "True"

\* a poll of the move loop has delivered a report
Polled == pc = "move_poll" /\ pc' \in {"move_send", "finally"}

\* C2 as stated: a poll whose position is more than epsilon away from the
\* previous position and more than epsilon away from target resets
\* retry_count to max_retry, and the loop goes on.
C2_ResetFarFromTarget ==
  [][(/\ Polled
      /\ Abs(r'.ref1.pos - prev_height) > 13
      /\ Abs(r'.ref1.pos - target) > 13)
     => (retry_count' = 3 /\ pc' = "move_send")]_vars

\* C2 amended: a poll whose position is more than epsilon away from the
\* previous position (0 before the first poll) and more than epsilon away
\* from the reported ref1cnt resets retry_count to max_retry, and the loop
\* goes on.
C2_ResetFarFromCounter ==
  [][(/\ Polled
      /\ Abs(r'.ref1.pos - prev_height) > 13
      /\ Abs(r'.ref1cnt - r'.ref1.pos) > 13)
     => (retry_count' = 3 /\ pc' = "move_send")]_vars

C2_Witness ==
  /\ pc = "move_send"
  /\ polls = MaxPolls
  /\ retry_count = 3
  /\ Abs(r.ref1cnt - r.ref1.pos) > 13

\* C3: when the program has ended, the interface it claimed is released.
C3_ReleasedOnExit == pc = "exit" => ~claimed

\* C4: after a status fetch that returned the not-ready signature the
\* handshake sends GET_STATUS, SET_MODE, MOVE_END in this order and nothing
\* else, and the session is Ready only after both writes reported 64 bytes.
C4_HandshakeOrder ==
  [][/\ (pc = "init_fetch" /\ NotReadySignature(buf'))
          => (pc' = "init_setmode" /\ transfers' = <<WireGetStatus>>)
     /\ pc = "init_setmode"
          => /\ NotReadySignature(buf)
             /\ SessionState = "Uninitialized"
             /\ transfers' = <<WireGetStatus, WireSetMode>>
             /\ pc' \in {"init_moveend", "exit"}
             /\ pc' = "init_moveend" => amount' = 64
     /\ pc = "init_moveend"
          => /\ SessionState = "Uninitialized"
             /\ transfers' = <<WireGetStatus, WireSetMode, WireMoveEnd>>
             /\ pc' \in {"main", "exit"}
             /\ SessionState' = "Ready" <=> (err' = "none" /\ amount' = 64)]_vars

C4_Witness ==
  /\ SessionState = "Ready"
  /\ pc = "main"
  /\ NotReadySignature(buf)
  /\ transfers = <<WireGetStatus, WireSetMode, WireMoveEnd>>
  /\ amount = 64

\* C5: a handshake step that fails (status fetch with a leading byte other
\* than 4, SET_MODE or MOVE_END reporting a count other than 64) leaves the
\* session Faulted, no later handshake step is sent, and a Faulted session
\* stays Faulted and issues no further control transfer.
C5_FaultIsTerminal ==
  [][/\ (pc = "init_fetch" /\ rx' # <<>> /\ At(rx', 0) # 4)
          => (SessionState' = "Faulted" /\ transfers' = <<WireGetStatus>>)
     /\ (pc = "init_setmode" /\ amount' # 64)
          => /\ SessionState' = "Faulted"
             /\ transfers' = <<WireGetStatus, WireSetMode>>
     /\ (pc = "init_moveend" /\ (amount' # 64 \/ err' # "none"))
          => SessionState' = "Faulted"
     /\ SessionState = "Faulted"
          => (SessionState' = "Faulted" /\ transfers' = transfers)]_vars

C5_Witness ==
  /\ SessionState = "Faulted"
  /\ err = "InitFailed"
  /\ amount = 8
  /\ transfers = <<WireGetStatus, WireSetMode>>

\* C6: when the handshake's status fetch succeeds and the buffer does not
\* carry the not-ready signature, the session is Ready after that single
\* read and no SET_CI write was issued.
C6_ReadyAfterSingleRead ==
  [][(pc = "init_fetch" /\ buf' # <<>> /\ ~NotReadySignature(buf'))
       => /\ SessionState' = "Ready"
          /\ transfers' = <<WireGetStatus>>]_vars

\* C7: on a 64-byte buffer _is_status_report_not_ready is true exactly when
\* byte 0 is 4, byte 1 is 56 and bytes 2..58 are zero; making one byte of
\* 2..58 non-zero turns true into false, and a change of one of the bytes
\* 59..63 never changes the result.
C7_Signature ==
  /\ [](probe.kind = "sig" =>
          /\ Len(probe.buf) = 64
          /\ probe.out = IF NotReadySignature(probe.buf)
                           THEN "True" ELSE "False")
  /\ [][LET changed == {i \in 0..63 : At(probe'.buf, i) # At(probe.buf, i)}
        IN /\ (/\ probe.out = "True"
                /\ Cardinality(changed) = 1
                /\ changed \subseteq 2..58) => probe'.out = "False"
           /\ changed \subseteq 59..63 => probe'.out = probe.out]_vars

C7_Witness ==
  /\ probe.kind = "sig"
  /\ probe.pokes = 1
  /\ At(probe.buf, 58) = 255
  /\ At(probe.buf, 59) = 0
  /\ probe.out = "False"
  /\ At(probe.buf, 0) = 4
  /\ At(probe.buf, 1) = 56

C9_ResultIffNear ==
  Returned =>
    /\ retry_count = 0
    /\ result \in {"True", "False"}
    /\ result = "True" <=> (r.ref1.pos - target) \in -13..13

C9_Witness ==
  /\ Returned
  /\ target = 32768
  /\ r.ref1.pos = 32781
  /\ result = "True"

\* C10: every raw report that _get_status_report hands on is 64 bytes long.
C10_FullLength == buf # <<>> => Len(buf) = 64


\* the fields of a report after ref5, in the order of the layout
TailFields(rep) ==
  <<rep.diagnostic, rep.undefined1, rep.handset1, rep.handset2,
    rep.ref6, rep.ref7, rep.ref8, rep.undefined2>>

\* the field (index into TailFields) that holds raw byte i when the fields
\* after ref5 lie end to end with the stated widths 8, 2, 2, 2, 4, 4, 4 and
\* the rest; 0 for the bytes before them
StatedField(i) ==
  IF i < 32 THEN 0
  ELSE IF i < 40 THEN 1
  ELSE IF i < 42 THEN 2
  ELSE IF i < 44 THEN 3
  ELSE IF i < 46 THEN 4
  ELSE IF i < 50 THEN 5
  ELSE IF i < 54 THEN 6
  ELSE IF i < 58 THEN 7
  ELSE 8

\* the bytes in which two buffers of 64 bytes differ
ChangedBytes(a, b) == {i \in 0..63 : At(a, i) # At(b, i)}

\* the fields after ref5 in which two reports differ
ChangedTail(x, y) == {k \in 1..8 : TailFields(x)[k] # TailFields(y)[k]}

\* C11: the fields after ref5 are read from consecutive ranges that do not
\* overlap (diagnostic 8 bytes, undefined 2, handset1 2, handset2 2, ref6,
\* ref7, ref8 4 each, then undefined2): a change of one raw byte changes
\* the one field that holds it and no other.
C11_DisjointRanges ==
  [][\A i \in 0..63 :
       ChangedBytes(probe.buf, probe'.buf) = {i}
         => ChangedTail(probe.out, probe'.out) =
              IF StatedField(i) = 0 THEN {} ELSE {StatedField(i)}]_vars


\* C12: the two bytes _move writes for v in a slot (v mod 256, then
\* v div 256), read back by the 16-bit rule of position and
\* ref1cnt..ref4cnt, give v again.
C12_RoundTrip ==
  (probe.kind = "word" /\ probe.stage = "decoded") =>
    LET data == probe.requests[1].data
    IN /\ At(data, 1) = probe.w % 256
       /\ At(data, 2) = probe.w \div 256
       /\ probe.out.err = "none"
       /\ probe.out.ref1.pos = probe.w
       /\ probe.out.ref1cnt = probe.w
       /\ probe.out.ref2cnt = probe.w
       /\ probe.out.ref3cnt = probe.w
       /\ probe.out.ref4cnt = probe.w

C12_Witness ==
  /\ probe.kind = "word"
  /\ probe.stage = "decoded"
  /\ probe.w = 4660
  /\ At(probe.requests[1].data, 1) = 52
  /\ At(probe.requests[1].data, 2) = 18
  /\ probe.out.ref1.pos = 4660


\* C13: for a 16-bit code _move issues one SET_CI write whose 64 bytes are
\* 5, then code mod 256 and code div 256 four times over, then zeros, and
\* it returns true exactly when the transport reports 64 bytes.
C13_MoveWrite ==
  (probe.kind = "word" /\ probe.stage \in {"sent", "decoded"}) =>
    /\ probe.requests =
         <<[type |-> 33, request |-> 9, value |-> 773,
            data |-> [i \in 1..64 |->
                        IF i = 1 THEN 5
                        ELSE IF i \in {2, 4, 6, 8} THEN probe.w % 256
                        ELSE IF i \in {3, 5, 7, 9} THEN probe.w \div 256
                        ELSE 0]]>>
    /\ probe.sent <=> probe.amount = 64

C13_Witness ==
  /\ probe.kind = "word"
  /\ probe.stage = "sent"
  /\ probe.w = 32769
  /\ probe.amount = 8
  /\ ~probe.sent
  /\ SubSeq(probe.requests[1].data, 1, 10) =
       <<5, 1, 128, 1, 128, 1, 128, 1, 128, 0>>

\* C14: ValidFlags.from_buf of a 16-bit word w sets the flag of ordinal i
\* (0 the first named flag, 15 the last) exactly when bit 15 - i of w is
\* set.
C14_FlagsMsbFirst ==
  (probe.kind = "word" /\ probe.stage = "decoded") =>
    /\ probe.out.validFlag.err = "none"
    /\ Len(probe.out.validFlag.flags) = 16
    /\ \A i \in 0..15 :
         probe.out.validFlag.flags[i + 1]
           <=> (probe.w \div Pow2(15 - i)) % 2 = 1

C14_Witness ==
  /\ probe.kind = "word"
  /\ probe.stage = "decoded"
  /\ probe.w = 32768
  /\ probe.out.validFlag.flags[1]
  /\ \A i \in 2..16 : ~probe.out.validFlag.flags[i]

\* C15: on a Ready session get_height issues exactly one transfer, the
\* GET_STATUS read, and nothing is transferred after it; the raw position it
\* returns is bytes 4 and 5 of the report that read delivered, low byte
\* first, and the centimetres are that position divided by 98.
C15_SingleRead ==
  [][(subcommand = "status" /\ co = "controller") =>
       IF pc = "main"
         THEN /\ transfers' = Append(transfers, WireGetStatus)
              /\ height' # <<>> =>
                   /\ Len(rx') >= 6
                   /\ height'[1] = At(rx', 4) + 256 * At(rx', 5)
                   /\ 98 * height'[2] + height'[3] = height'[1]
                   /\ height'[3] \in 0..97
         ELSE transfers' = transfers /\ height' = height]_vars

C15_Witness ==
  /\ subcommand = "status"
  /\ pc = "finally"
  /\ err = "none"
  /\ height = <<4900, 50, 0>>
  /\ transfers = <<WireGetStatus, WireGetStatus>>
  /\ At(rx, 4) = 36 /\ At(rx, 5) = 19

\* C16: a move that has entered its loop leaves it, with a result or with
\* an error, whatever reports the device returns.
C16_MoveTerminates == InLoop ~> (result # "unset" \/ err # "none")

\* C17: once move or get_height has raised on a Ready session, the cleanup
\* leaves that error as it is, and the program ends with the interface
\* released.
C17_OriginalErrorSurfaces ==
  [][(co = "controller" /\ pc \in {"except", "finally"} /\ err # "none") =>
       /\ err' = err
       /\ pc' = "exit" => ~claimed']_vars

\* C18: retry_count stays in 0..3; while the loop of move runs no three
\* polls in a row have been settled, and move returns only when the last
\* three polls were: the loop ends at the first poll that completes a run
\* of three settled polls.  A poll is settled when its position is within
\* 13 of ref1cnt or of the position of the poll before it (0 at the start).
C18_ExitAtFullRun ==
  /\ retry_count \in 0..3
  /\ InLoop => streak.n < 3
  /\ Returned => streak.n = 3

C18_Witness ==
  /\ Returned
  /\ polls = 4
  /\ streak.n = 3
  /\ retry_count = 0

\* the transfers of the move() call: those after the handshake, which is
\* one read, or a read, the mode write and the stop write
MoveTransfers ==
  LET h == IF Len(transfers) >= 2 /\ transfers[2] = WireSetMode
             THEN 3 ELSE 1
  IN SubSeq(transfers, h + 1, Len(transfers))

\* the move write for the target of the call, as the interface table gives it
WireMoveTarget ==
  [type |-> 33, request |-> 9, value |-> 773,
   data |-> <<5, target % 256, target \div 256, target % 256,
              target \div 256, target % 256, target \div 256,
              target % 256, target \div 256>> \o ZerosN(55)]

\* C19: the transfers of a move() call alternate, a move write carrying
\* the target first and a GET_STATUS read after each write; between two
\* iterations as many reads as writes have been issued, and a call that
\* returns has a status read as its last transfer.
C19_Alternation ==
  (subcommand = "move" /\ co = "controller") =>
    /\ \A i \in 1..Len(MoveTransfers) :
         MoveTransfers[i] = IF i % 2 = 1 THEN WireMoveTarget
                            ELSE WireGetStatus
    /\ pc = "move_send" => Len(MoveTransfers) = 2 * polls
    /\ pc = "move_poll" => Len(MoveTransfers) = 2 * polls + 1
    /\ Returned =>
         /\ Len(MoveTransfers) = 2 * polls
         /\ polls >= 1
         /\ MoveTransfers[Len(MoveTransfers)] = WireGetStatus

C19_Witness ==
  /\ Returned
  /\ target = 100
  /\ polls = 4
  /\ transfers[1] = WireGetStatus
  /\ Len(transfers) = 9
  /\ transfers[2].data[2] = 100
  /\ transfers[8].value = 773
  /\ transfers[9] = WireGetStatus

\* C20: a move() call returns True only if some move write of that call
\* was reported as 64 bytes transferred.
C20_SuccessNeedsWrite == result = "True" => sent_full

====
